---------------------------- MODULE Spec2Model ----------------------------
(***************************************************************************)
(* Model of the camera / viewport engine of the interactive fractal        *)
(* viewer: src/renderer/camera.rs (CameraState, Camera),                   *)
(* src/renderer/complex.rs (Complex), and the parts of                     *)
(* src/renderer/renderer.rs and src/main.rs that feed it (construction     *)
(* from the window size, the clamped resize, the redraw of the frame loop  *)
(* and what the loop does with the result of render).                      *)
(*                                                                         *)
(* Numbers.  An f32 is modelled as an extended rational [n, d]:            *)
(*   d > 0          the finite value n/d, in lowest terms;                 *)
(*   d = 0, n = 1   +infinity;   d = 0, n = -1   -infinity;                *)
(*   d = 0, n = 0   NaN.                                                   *)
(* The four operations follow IEEE-754 for the special values (x/0, 0/0,   *)
(* inf - inf, 0 * inf, NaN propagation).  Finite results are exact: the    *)
(* rounding of f32 and its exponent range are not modelled (the runs       *)
(* explored keep every finite value a small power-of-two multiple of a     *)
(* small integer, far inside the range of f32), and                        *)
(* the two zeros are one value, every zero divisor behaving as +0 (the     *)
(* only divisors that can be zero are the pixel sizes, which come from     *)
(* unsigned integers).  Equality of two modelled values is identity of     *)
(* the value, so NaN is one value, equal to itself.                        *)
(***************************************************************************)
EXTENDS Integers, Sequences, FiniteSets, TLC

(***************************************************************************)
(* Bounds of the model.                                                    *)
(***************************************************************************)
\* number of events, ticks and calls in a run
MaxSteps == 3

(***************************************************************************)
(* f32 arithmetic.                                                         *)
(***************************************************************************)
Abs(i) == IF i < 0 THEN -i ELSE i

Sgn(i) == IF i > 0 THEN 1 ELSE IF i < 0 THEN -1 ELSE 0

RECURSIVE GCD(_, _)
GCD(a, b) == IF b = 0 THEN a ELSE GCD(b, a % b)

\* the value n/d; d = 0 gives an infinity or NaN
F32(n, d) ==
    IF d = 0 THEN [n |-> Sgn(n), d |-> 0]
    ELSE LET g == GCD(Abs(n), Abs(d))
             s == Sgn(d)
         IN  [n |-> (s * n) \div g, d |-> (s * d) \div g]

NaN == [n |-> 0, d |-> 0]

IsNaN(a) == a.d = 0 /\ a.n = 0

IsInf(a) == a.d = 0 /\ a.n # 0

IsFinite(a) == a.d > 0

IsZero(a) == a.d > 0 /\ a.n = 0

FNeg(a) == [n |-> -a.n, d |-> a.d]

FAdd(a, b) ==
    IF IsNaN(a) \/ IsNaN(b) THEN NaN
    ELSE IF IsInf(a) THEN (IF IsInf(b) /\ b.n # a.n THEN NaN ELSE a)
    ELSE IF IsInf(b) THEN b
    ELSE F32(a.n * b.d + b.n * a.d, a.d * b.d)

FSub(a, b) == FAdd(a, FNeg(b))

FMul(a, b) ==
    IF IsNaN(a) \/ IsNaN(b) THEN NaN
    ELSE IF IsInf(a) \/ IsInf(b)
         THEN (IF IsZero(a) \/ IsZero(b) THEN NaN
               ELSE [n |-> Sgn(a.n) * Sgn(b.n), d |-> 0])
    ELSE F32(a.n * b.n, a.d * b.d)

FDiv(a, b) ==
    IF IsNaN(a) \/ IsNaN(b) THEN NaN
    ELSE IF IsInf(a)
         THEN (IF IsInf(b) THEN NaN
               ELSE [n |-> a.n * (IF b.n < 0 THEN -1 ELSE 1), d |-> 0])
    ELSE IF IsInf(b) THEN F32(0, 1)
    ELSE IF IsZero(b)
         THEN (IF IsZero(a) THEN NaN ELSE [n |-> Sgn(a.n), d |-> 0])
    ELSE F32(a.n * b.d, a.d * b.n)

\* a > b; false when either is NaN
FGt(a, b) == ~IsNaN(a) /\ ~IsNaN(b) /\ a.n * b.d > b.n * a.d

\* a < b; false when either is NaN
FLt(a, b) == FGt(b, a)

\* `i as f32` of an integer (exact for the sizes and coordinates used)
AsF32(i) == F32(i, 1)

Two == F32(2, 1)

(***************************************************************************)
(* Complex (complex.rs).                                                   *)
(***************************************************************************)
Complex_new(re, im) == [re |-> re, im |-> im]

Complex_add(a, b) == [re |-> FAdd(a.re, b.re), im |-> FAdd(a.im, b.im)]

Complex_sub(a, b) == [re |-> FSub(a.re, b.re), im |-> FSub(a.im, b.im)]

(***************************************************************************)
(* CameraState (camera.rs).  A state is the record                         *)
(* [width, height, origin, scale, zoom, min, max, needs_redraw].           *)
(***************************************************************************)
calculate_limits(width, height, scale, origin, zoom) ==
    LET ratio_x == IF FGt(width, height) THEN F32(1, 1) ELSE FDiv(height, width)
        ratio_y == IF FGt(width, height) THEN FDiv(width, height) ELSE F32(1, 1)
        min_x == FDiv(FDiv(FNeg(scale), Two), ratio_x)
        max_x == FDiv(FDiv(scale, Two), ratio_x)
        min_y == FDiv(FDiv(FNeg(scale), Two), ratio_y)
        max_y == FDiv(FDiv(scale, Two), ratio_y)
    IN  [min |-> Complex_new(FAdd(FDiv(min_x, zoom), origin.re),
                             FAdd(FDiv(min_y, zoom), origin.im)),
         max |-> Complex_new(FAdd(FDiv(max_x, zoom), origin.re),
                             FAdd(FDiv(max_y, zoom), origin.im))]

CameraState_new(width, height, scale, origin) ==
    LET zoom == F32(1, 1)
        lim == calculate_limits(width, height, scale, origin, zoom)
    IN  [width |-> width, height |-> height, origin |-> origin,
         scale |-> scale, zoom |-> zoom,
         min |-> lim.min, max |-> lim.max, needs_redraw |-> 1]

update_limits(s) ==
    LET lim == calculate_limits(s.width, s.height, s.scale, s.origin, s.zoom)
    IN  [s EXCEPT !.min = lim.min, !.max = lim.max]

\* redraw that leaves the dirty flag as it is
redraw_unmarked(s) == s

redraw(s) == [s EXCEPT !.needs_redraw = 1]

CameraState_resize(s, width, height) ==
    redraw(update_limits([s EXCEPT !.width = width, !.height = height]))

CameraState_set_origin(s, origin) ==
    redraw(update_limits([s EXCEPT !.origin = origin]))

\* move_origin measuring the rectangle from min to max (the other sign)
CameraState_move_origin_reversed(s, pixel_x, pixel_y) ==
    LET new_origin == Complex_new(
            FAdd(s.origin.re, FMul(FDiv(FSub(s.max.re, s.min.re), s.width), pixel_x)),
            FAdd(s.origin.im, FMul(FDiv(FSub(s.max.im, s.min.im), s.height), pixel_y)))
    IN  CameraState_set_origin(s, new_origin)

CameraState_move_origin(s, pixel_x, pixel_y) ==
    LET new_origin == Complex_new(
            FAdd(s.origin.re, FMul(FDiv(FSub(s.min.re, s.max.re), s.width), pixel_x)),
            FAdd(s.origin.im, FMul(FDiv(FSub(s.min.im, s.max.im), s.height), pixel_y)))
    IN  CameraState_set_origin(s, new_origin)

\* set_zoom without the update_limits call
CameraState_set_zoom_stale(s, zoom) == redraw([s EXCEPT !.zoom = zoom])

CameraState_set_zoom(s, zoom) ==
    redraw(update_limits([s EXCEPT !.zoom = zoom]))

\* zoom_at_point's step with the two directions exchanged
zoom_step_swapped(zoom, zoom_by) ==
    IF FGt(zoom_by, F32(0, 1)) THEN FDiv(zoom, Two)
    ELSE IF FLt(zoom_by, F32(0, 1)) THEN FMul(zoom, Two)
    ELSE zoom

\* the zoom factor after one zoom_at_point step
zoom_step(zoom, zoom_by) ==
    IF FGt(zoom_by, F32(0, 1)) THEN FMul(zoom, Two)
    ELSE IF FLt(zoom_by, F32(0, 1)) THEN FDiv(zoom, Two)
    ELSE zoom

CameraState_zoom_at_point(s, x, y, zoom_by) ==
    redraw(update_limits([s EXCEPT !.zoom = zoom_step(s.zoom, zoom_by)]))

\* zoom_rect without the redraw call
CameraState_zoom_rect_unmarked(s, x, y, w, h) == s

CameraState_zoom_rect(s, x, y, w, h) == redraw(s)

(***************************************************************************)
(* Camera (camera.rs).                                                     *)
(***************************************************************************)
\* pixel_to_point with the y axis inverted (row 0 at max.im)
pixel_to_point_inverted(s, x, y) ==
    LET w == FSub(s.max.re, s.min.re)
        h == FSub(s.max.im, s.min.im)
    IN  Complex_new(FAdd(s.min.re, FDiv(FMul(x, w), s.width)),
                    FSub(s.max.im, FDiv(FMul(y, h), s.height)))

pixel_to_point(s, x, y) ==
    LET w == FSub(s.max.re, s.min.re)
        h == FSub(s.min.im, s.max.im)
    IN  Complex_new(FAdd(s.min.re, FDiv(FMul(x, w), s.width)),
                    FSub(s.min.im, FDiv(FMul(y, h), s.height)))

\* the point under the pixel held in a Vector2<f64>
point_at(s, pos) == pixel_to_point(s, AsF32(pos.x), AsF32(pos.y))

\* update's new origin without the current origin added in
drag_origin_absolute(s, grab, cursor) ==
    Complex_sub(grab, point_at(s, cursor))

\* the origin that puts the grabbed point back under the cursor (update,
\* mouse held): grab_point + origin - pixel_to_point(cursor_pos)
drag_origin(s, grab, cursor) ==
    Complex_sub(Complex_add(grab, s.origin), point_at(s, cursor))

\* the drag recomputation done whether or not the button is held
update_drag_always(s, left_down, grab, cursor) ==
    CameraState_set_origin(s, drag_origin(s, grab, cursor))

\* update, first half: the drag recomputation
update_drag(s, left_down, grab, cursor) ==
    IF left_down
    THEN CameraState_set_origin(s, drag_origin(s, grab, cursor))
    ELSE s

\* update, second half: whether the state is written to the GPU buffer
update_uploads(s) == s.needs_redraw # 0

\* update, second half: the state left behind
update_clear(s) == IF update_uploads(s) THEN [s EXCEPT !.needs_redraw = 0] ELSE s

(***************************************************************************)
(* Renderer (renderer.rs).                                                 *)
(***************************************************************************)
DEFAULT_CAMERA_SCALE == 3

DEFAULT_CAMERA_ORIGIN == Complex_new(F32(-1, 2), F32(0, 1))

\* the size Renderer::resize stores
clamp_size(n) == IF n <= 0 THEN 1 ELSE n

\* the size Renderer::new hands to Camera::new
initial_size(n) == n

(***************************************************************************)
(* Inputs.                                                                 *)
(***************************************************************************)
\* window sizes the window system reports, in pixels
Sizes == 0 .. 2

\* cursor positions the window system reports, in pixels
CursorPositions == [x : 0 .. 1, y : 0 .. 1]

LineDelta(h, v) == [type |-> "LineDelta", x |-> h, y |-> v]

PixelDelta(x, y) == [type |-> "PixelDelta", x |-> x, y |-> y]

NoDelta == [type |-> "none", x |-> 0, y |-> 0]

WheelDeltas ==
    {LineDelta(0, 1), LineDelta(0, -1), LineDelta(1, 0), PixelDelta(0, 1)}

OriginInputs == {Complex_new(F32(0, 1), F32(1, 1))}

PixelMoves == {<<1, -1>>}

ZoomInputs == {F32(1, 2), F32(4, 1)}

\* the arguments of a direct call, as recorded in ev
Args(x, y) == [type |-> "Args", x |-> x, y |-> y]

\* sizes, base scales and origins handed to CameraState::new by a direct caller
NewSizes == {<<100, 100>>, <<2, 1>>, <<1, 2>>}

NewScales == {4, DEFAULT_CAMERA_SCALE}

NewOrigins == {Complex_new(F32(0, 1), F32(0, 1))}

\* pixel displacements handed to move_origin
MoveInputs == {<<50, 0>>, <<1, -1>>, <<0, 3>>}

\* directions handed to zoom_at_point
ZoomByInputs == {1, -1, 0}

(***************************************************************************)
(* State.                                                                  *)
(***************************************************************************)
VARIABLES
    state,            \* Camera.state: the CameraState
    buffer,           \* contents of Camera.buffer, the GPU uniform buffer
    cursor_pos,       \* Camera.cursor_pos
    mouse_left_down,  \* Camera.mouse_left_down
    grab_pos,         \* Camera.grab_pos
    grab_point,       \* Camera.grab_point
    ev,               \* the last event or call, what input returned for it,
                      \* and whether it wrote the buffer
    snap,             \* <<the state before ev>> when ev was a zoom step, else <<>>
    steps,            \* number of events, ticks and calls so far
    control_flow,     \* *control_flow of the event loop closure
    render_result,    \* what Renderer::render returned in this step, "none" if
                      \* the step did not render
    redraw_requested  \* window.request_redraw() called and not yet served

vars == <<state, buffer, cursor_pos, mouse_left_down, grab_pos, grab_point,
          ev, snap, steps, control_flow, render_result, redraw_requested>>

Event(kind, delta, handled, uploaded) ==
    [kind |-> kind, delta |-> delta, handled |-> handled, uploaded |-> uploaded]

\* Renderer::new -> Camera::new -> CameraState::new, from window.inner_size()
Init ==
    \E w \in Sizes, h \in Sizes :
        /\ state = CameraState_new(AsF32(initial_size(w)), AsF32(initial_size(h)),
                                   AsF32(DEFAULT_CAMERA_SCALE), DEFAULT_CAMERA_ORIGIN)
        /\ buffer = state
        /\ cursor_pos = [x |-> 0, y |-> 0]
        /\ mouse_left_down = FALSE
        /\ grab_pos = [x |-> 0, y |-> 0]
        /\ grab_point = Complex_new(F32(0, 1), F32(0, 1))
        /\ ev = Event("new", NoDelta, FALSE, FALSE)
        /\ snap = <<>>
        /\ steps = 0
        /\ control_flow = "Poll"
        /\ render_result = "none"
        /\ redraw_requested = FALSE

(***************************************************************************)
(* Camera::input, one action per arm, with what main.rs does when the      *)
(* event is not handled.                                                   *)
(***************************************************************************)
MouseWheel ==
    \E delta \in WheelDeltas :
        IF delta.type = "LineDelta"
        THEN /\ state' = CameraState_zoom_at_point(
                             state, FDiv(state.width, Two), FDiv(state.height, Two),
                             AsF32(delta.y))
             /\ ev' = Event("MouseWheel", delta, TRUE, FALSE)
             /\ snap' = <<state>>
             /\ UNCHANGED <<buffer, cursor_pos, mouse_left_down, grab_pos,
                            grab_point>>
        ELSE /\ ev' = Event("MouseWheel", delta, FALSE, FALSE)
             /\ snap' = <<>>
             /\ UNCHANGED <<state, buffer, cursor_pos, mouse_left_down, grab_pos,
                            grab_point>>

CursorMoved ==
    \E position \in CursorPositions :
        /\ cursor_pos' = position
        /\ ev' = Event("CursorMoved", NoDelta, TRUE, FALSE)
        /\ snap' = <<>>
        /\ UNCHANGED <<state, buffer, mouse_left_down, grab_pos, grab_point>>

LeftReleased ==
    /\ mouse_left_down' = FALSE
    /\ ev' = Event("LeftReleased", NoDelta, TRUE, FALSE)
    /\ snap' = <<>>
    /\ UNCHANGED <<state, buffer, cursor_pos, grab_pos, grab_point>>

LeftPressed ==
    /\ ev' = Event("LeftPressed", NoDelta, TRUE, FALSE)
    /\ snap' = <<>>
    /\ IF ~mouse_left_down
       THEN /\ mouse_left_down' = TRUE
            /\ grab_pos' = cursor_pos
            /\ grab_point' = point_at(state, cursor_pos)
       ELSE UNCHANGED <<mouse_left_down, grab_pos, grab_point>>
    /\ UNCHANGED <<state, buffer, cursor_pos>>

\* Resized / ScaleFactorChanged: input returns false, main.rs calls
\* Renderer::resize, which clamps and calls Camera::resize
Resized ==
    \E w \in Sizes, h \in Sizes :
        /\ state' = CameraState_resize(state, AsF32(clamp_size(w)), AsF32(clamp_size(h)))
        /\ ev' = Event("Resized", NoDelta, FALSE, FALSE)
        /\ snap' = <<>>
        /\ UNCHANGED <<buffer, cursor_pos, mouse_left_down, grab_pos, grab_point>>

\* CloseRequested, or Escape pressed: input returns false, main.rs sets
\* ControlFlow::Exit
CloseRequested ==
    /\ control_flow' = "Exit"
    /\ render_result' = "none"
    /\ ev' = Event("CloseRequested", NoDelta, FALSE, FALSE)
    /\ snap' = <<>>
    /\ UNCHANGED <<state, buffer, cursor_pos, mouse_left_down, grab_pos, grab_point,
                   redraw_requested>>

\* MainEventsCleared: main.rs asks for the next redraw
MainEventsCleared ==
    /\ redraw_requested' = TRUE
    /\ render_result' = "none"
    /\ ev' = Event("MainEventsCleared", NoDelta, FALSE, FALSE)
    /\ snap' = <<>>
    /\ UNCHANGED <<state, buffer, cursor_pos, mouse_left_down, grab_pos, grab_point,
                   control_flow>>

(***************************************************************************)
(* Camera::update, called by Renderer::update on every RedrawRequested.    *)
(***************************************************************************)
Update ==
    LET s1 == update_drag(state, mouse_left_down, grab_point, cursor_pos)
    IN  /\ state' = update_clear(s1)
        /\ buffer' = IF update_uploads(s1) THEN s1 ELSE buffer
        /\ ev' = Event("update", NoDelta, FALSE, update_uploads(s1))
        /\ snap' = <<>>
        /\ UNCHANGED <<cursor_pos, mouse_left_down, grab_pos, grab_point>>

\* what Renderer::render can return: Ok or a wgpu::SurfaceError
RenderResults == {"Ok", "OutOfMemory", "Outdated", "Lost", "Timeout"}

\* the match on render's result that treats every error as fatal
after_render_exit_on_error(result, flow) == IF result = "Ok" THEN flow ELSE "Exit"

\* *control_flow after the match on render's result: out of memory ends the
\* loop, any other error is only printed
after_render(result, flow) == IF result = "OutOfMemory" THEN "Exit" ELSE flow

\* RedrawRequested: Renderer::update, then Renderer::render, which reads the
\* bind group of the buffer and writes no camera field
RedrawRequested ==
    /\ Update
    /\ \E result \in RenderResults :
           /\ render_result' = result
           /\ control_flow' = after_render(result, control_flow)
    /\ redraw_requested' = FALSE

(***************************************************************************)
(* The public mutators of Camera, called directly.  (zoom_at_point is      *)
(* called by the MouseWheel arm of input, with every sign of zoom_by.)      *)
(***************************************************************************)
SetOrigin ==
    \E origin \in OriginInputs :
        /\ state' = CameraState_set_origin(state, origin)
        /\ ev' = Event("set_origin", NoDelta, FALSE, FALSE)
        /\ snap' = <<>>
        /\ UNCHANGED <<buffer, cursor_pos, mouse_left_down, grab_pos, grab_point>>

MoveOrigin ==
    \E p \in PixelMoves :
        /\ state' = CameraState_move_origin(state, AsF32(p[1]), AsF32(p[2]))
        /\ ev' = Event("move_origin", NoDelta, FALSE, FALSE)
        /\ snap' = <<>>
        /\ UNCHANGED <<buffer, cursor_pos, mouse_left_down, grab_pos, grab_point>>

SetZoom ==
    \E zoom \in ZoomInputs :
        /\ state' = CameraState_set_zoom(state, zoom)
        /\ ev' = Event("set_zoom", NoDelta, FALSE, FALSE)
        /\ snap' = <<>>
        /\ UNCHANGED <<buffer, cursor_pos, mouse_left_down, grab_pos, grab_point>>

ZoomRect ==
    /\ state' = CameraState_zoom_rect(state, F32(0, 1), F32(0, 1), F32(1, 1), F32(1, 1))
    /\ ev' = Event("zoom_rect", NoDelta, FALSE, FALSE)
    /\ snap' = <<>>
    /\ UNCHANGED <<buffer, cursor_pos, mouse_left_down, grab_pos, grab_point>>

\* the event loop calls its closure until *control_flow is Exit
Running == control_flow = "Poll"

\* one more step of the run
Step == Running /\ steps < MaxSteps /\ steps' = steps + 1

\* a step that renders nothing and touches neither *control_flow nor the
\* pending redraw request
NoFrame == render_result' = "none" /\ UNCHANGED <<control_flow, redraw_requested>>

\* Events, redraws and calls in any order.  A redraw may come at any time
\* (the window system sends RedrawRequested on its own as well), so the
\* request raised by MainEventsCleared, which no handler reads, is left to
\* LoopSpec below.
Next ==
    \/ Step /\ MouseWheel /\ NoFrame
    \/ Step /\ CursorMoved /\ NoFrame
    \/ Step /\ LeftReleased /\ NoFrame
    \/ Step /\ LeftPressed /\ NoFrame
    \/ Step /\ Resized /\ NoFrame
    \/ Step /\ CloseRequested
    \/ Step /\ RedrawRequested
    \/ Step /\ SetOrigin /\ NoFrame
    \/ Step /\ MoveOrigin /\ NoFrame
    \/ Step /\ SetZoom /\ NoFrame
    \/ Step /\ ZoomRect /\ NoFrame

Spec == Init /\ [][Next]_vars

(***************************************************************************)
(* The frame loop.  Window events are bounded by MaxSteps; the loop itself *)
(* is not: after every batch of events winit emits MainEventsCleared,      *)
(* whose handler asks for a redraw, and a redraw that was asked for is     *)
(* delivered as RedrawRequested (which the window system may also send on  *)
(* its own).  The window events here are those of the mouse and the close  *)
(* request; resizes, which change the viewport only, are in Spec.          *)
(***************************************************************************)
Frame == Running /\ UNCHANGED steps

LoopNext ==
    \/ Step /\ MouseWheel /\ NoFrame
    \/ Step /\ CursorMoved /\ NoFrame
    \/ Step /\ LeftReleased /\ NoFrame
    \/ Step /\ LeftPressed /\ NoFrame
    \/ Step /\ CloseRequested
    \/ Frame /\ MainEventsCleared
    \/ Frame /\ RedrawRequested

\* a redraw that has been asked for and that the running loop will deliver
RedrawPending == Running /\ redraw_requested

\* Fairness: MainEventsCleared keeps coming while the loop runs, and a pending
\* redraw is delivered.  The second condition is the weak fairness of
\* Frame /\ redraw_requested /\ RedrawRequested with its enabling condition
\* written out: RedrawRequested has no guard of its own and lowers
\* redraw_requested, so that step is possible exactly when RedrawPending.
LoopSpec ==
    /\ Init
    /\ [][LoopNext]_vars
    /\ WF_vars(Frame /\ MainEventsCleared)
    /\ \/ []<>(~RedrawPending)
       \/ []<><<Frame /\ redraw_requested /\ RedrawRequested>>_vars

(***************************************************************************)
(* The viewport used directly: CameraState::new with the caller's size,    *)
(* base scale and origin, then the public mutators called with the         *)
(* caller's arguments.                                                     *)
(***************************************************************************)
NewInit ==
    \E size \in NewSizes, scale \in NewScales, origin \in NewOrigins :
        /\ state = CameraState_new(AsF32(size[1]), AsF32(size[2]), AsF32(scale), origin)
        /\ buffer = state
        /\ cursor_pos = [x |-> 0, y |-> 0]
        /\ mouse_left_down = FALSE
        /\ grab_pos = [x |-> 0, y |-> 0]
        /\ grab_point = Complex_new(F32(0, 1), F32(0, 1))
        /\ ev = Event("new", NoDelta, FALSE, FALSE)
        /\ snap = <<>>
        /\ steps = 0
        /\ control_flow = "Poll"
        /\ render_result = "none"
        /\ redraw_requested = FALSE

CallZoomAtPoint ==
    \E zoom_by \in ZoomByInputs :
        /\ state' = CameraState_zoom_at_point(
                         state, FDiv(state.width, Two), FDiv(state.height, Two),
                         AsF32(zoom_by))
        /\ ev' = Event("zoom_at_point", Args(0, zoom_by), FALSE, FALSE)
        /\ snap' = <<state>>
        /\ UNCHANGED <<buffer, cursor_pos, mouse_left_down, grab_pos, grab_point>>

CallMoveOrigin ==
    \E p \in MoveInputs :
        /\ state' = CameraState_move_origin(state, AsF32(p[1]), AsF32(p[2]))
        /\ ev' = Event("move_origin", Args(p[1], p[2]), FALSE, FALSE)
        /\ snap' = <<>>
        /\ UNCHANGED <<buffer, cursor_pos, mouse_left_down, grab_pos, grab_point>>

CallNext ==
    \/ Step /\ CallZoomAtPoint /\ NoFrame
    \/ Step /\ CallMoveOrigin /\ NoFrame
    \/ Step /\ SetZoom /\ NoFrame
    \/ Step /\ SetOrigin /\ NoFrame

CallSpec == NewInit /\ [][CallNext]_vars

(***************************************************************************)
(* Properties.                                                             *)
(***************************************************************************)
One == F32(1, 1)

FiniteComplex(c) == IsFinite(c.re) /\ IsFinite(c.im)

\* every field of s is a finite number and the size is at least 1 x 1
FiniteState(s) ==
    /\ ~FLt(s.width, One) /\ ~FLt(s.height, One)
    /\ IsFinite(s.zoom) /\ FGt(s.zoom, F32(0, 1))
    /\ FiniteComplex(s.origin) /\ FiniteComplex(s.min) /\ FiniteComplex(s.max)

\* the last step was an update tick taken with the left button held
TickedWhileHeld == ev.kind = "update" /\ mouse_left_down

\* the step recorded in e called zoom_at_point (a line-delta scroll does)
IsZoomStep(e) == e.kind = "MouseWheel" /\ e.delta.type = "LineDelta"

\* the step recorded in e called a mutator of the viewport
IsMutation(e) ==
    \/ e.kind \in {"Resized", "set_origin", "move_origin", "set_zoom", "zoom_rect"}
    \/ IsZoomStep(e)

----------------------------------------------------------------------------
\* C1: while the left button is held, after every update tick the point under
\* the cursor is grab_point, whatever cursor-move, scroll and resize events
\* came between the ticks.
C1_GrabPointUnderCursor ==
    TickedWhileHeld => point_at(state, cursor_pos) = grab_point

\* C1 restricted to viewports whose fields are finite: holds (it fails only
\* on the NaN / infinity that a zero initial window size produces, see C6)
C1_GrabPointUnderCursorWhenFinite ==
    (TickedWhileHeld /\ FiniteState(state) /\ FiniteComplex(grab_point))
        => point_at(state, cursor_pos) = grab_point

----------------------------------------------------------------------------
\* C2: for width, height > 0 and zoom > 0 the shorter screen dimension spans
\* exactly scale/zoom and the longer one scale/zoom * (long/short).
C2_ShorterSpansBaseScale ==
    LET span_x == FSub(state.max.re, state.min.re)
        span_y == FSub(state.max.im, state.min.im)
        base == FDiv(state.scale, state.zoom)
    IN  FiniteState(state) =>
            IF FLt(state.width, state.height)
            THEN /\ span_x = base
                 /\ span_y = FMul(base, FDiv(state.height, state.width))
            ELSE /\ span_y = base
                 /\ span_x = FMul(base, FDiv(state.width, state.height))

----------------------------------------------------------------------------
\* C3: in every reachable state min and max are what calculate_limits gives
\* for the current width, height, scale, origin and zoom, and scale is still
\* the value the camera was constructed with.
C3_LimitsNeverStale ==
    LET lim == calculate_limits(state.width, state.height, state.scale,
                                state.origin, state.zoom)
    IN  /\ state.min = lim.min
        /\ state.max = lim.max
        /\ state.scale = AsF32(DEFAULT_CAMERA_SCALE)

\* a mutator has moved the rectangle away from the constructed one
C3_Witness ==
    /\ IsMutation(ev)
    /\ FiniteState(state)
    /\ state.zoom # One
    /\ state.origin # DEFAULT_CAMERA_ORIGIN
    /\ state.width # state.height

----------------------------------------------------------------------------
\* C4: every mutating viewport operation leaves the dirty flag set; an update
\* tick uploads exactly when the flag is set at its upload step (after the
\* drag recomputation) and leaves it clear; no other step clears the flag.
C4_DirtyFlagDiscipline ==
    [][ /\ IsMutation(ev') => state'.needs_redraw = 1
        /\ ev'.kind = "update" =>
              /\ ev'.uploaded = (state.needs_redraw # 0 \/ mouse_left_down)
              /\ state'.needs_redraw = 0
              /\ ev'.uploaded => buffer'.needs_redraw = 1
              /\ ~ev'.uploaded => buffer' = buffer
        /\ ev'.kind # "update" => ~ev'.uploaded /\ buffer' = buffer
        /\ (state.needs_redraw # 0 /\ state'.needs_redraw = 0)
              => (ev'.kind = "update" /\ ev'.uploaded)
      ]_vars

\* a tick that uploaded the state a mutator had marked
C4_Witness ==
    /\ ev.kind = "update" /\ ev.uploaded
    /\ state.needs_redraw = 0
    /\ buffer.zoom # One
    /\ steps >= 2

----------------------------------------------------------------------------
\* C5: of two consecutive update ticks with nothing between them the second
\* issues no upload, whether the left button is up or held.
C5_SecondTickUploadsNothing ==
    [][ (ev.kind = "update" /\ ev'.kind = "update" /\ FiniteState(state))
        => ~ev'.uploaded ]_vars

----------------------------------------------------------------------------
\* C6: in every reachable state, the one right after construction included,
\* the stored width and height are at least 1.
C6_SizeAtLeastOne ==
    ~FLt(state.width, One) /\ ~FLt(state.height, One)

----------------------------------------------------------------------------
\* C7: a scroll event without vertical movement (a line delta whose vertical
\* part is 0, or any other kind of delta) is reported unhandled and leaves
\* the viewport state, dirty flag included, unchanged.
C7_NonVerticalScrollIgnored ==
    [][ (ev'.kind = "MouseWheel" /\ FiniteState(state)
            /\ (ev'.delta.type # "LineDelta" \/ ev'.delta.y = 0))
        => (~ev'.handled /\ state' = state) ]_vars

----------------------------------------------------------------------------
----------------------------------------------------------------------------
\* C9 as claimed: during a drag, after each update tick the point under the
\* pixel captured at press time, grab_pos, is grab_point (stated for finite
\* viewports, where it already fails).
C9_GrabPixelStaysAnchored ==
    (TickedWhileHeld /\ FiniteState(state) /\ FiniteComplex(grab_point))
        => point_at(state, grab_pos) = grab_point

\* C9 as amended: during a drag of a viewport with finite fields, after each
\* update tick the point under grab_pos is grab_point displaced by the pixel
\* offset from the cursor to grab_pos, scaled by the rectangle; so it is
\* grab_point exactly when the cursor is at grab_pos.
C9_GrabPixelDisplacedByCursorOffset ==
    (TickedWhileHeld /\ FiniteState(state) /\ FiniteComplex(grab_point))
        => LET span_x == FSub(state.max.re, state.min.re)
               span_y == FSub(state.max.im, state.min.im)
               dx == AsF32(grab_pos.x - cursor_pos.x)
               dy == AsF32(grab_pos.y - cursor_pos.y)
               offset == Complex_new(FDiv(FMul(dx, span_x), state.width),
                                     FDiv(FMul(dy, span_y), state.height))
           IN  /\ point_at(state, grab_pos) = Complex_add(grab_point, offset)
               /\ (point_at(state, grab_pos) = grab_point) <=> (cursor_pos = grab_pos)

\* a tick of a drag whose cursor has left the grab pixel in both directions
C9_Witness ==
    /\ TickedWhileHeld /\ FiniteState(state) /\ FiniteComplex(grab_point)
    /\ cursor_pos.x # grab_pos.x /\ cursor_pos.y # grab_pos.y
    /\ state.origin # DEFAULT_CAMERA_ORIGIN

----------------------------------------------------------------------------
\* C10 as claimed: pixel row 0 maps to max.im, row height to min.im, and the
\* centre pixel to origin (stated for finite viewports, where it already
\* fails).
C10_RowZeroIsMaxIm ==
    FiniteState(state) =>
        /\ pixel_to_point(state, F32(0, 1), F32(0, 1)).im = state.max.im
        /\ pixel_to_point(state, state.width, state.height).im = state.min.im
        /\ pixel_to_point(state, FDiv(state.width, Two), FDiv(state.height, Two))
               = state.origin

\* C10 as amended: on a viewport with finite fields pixel_to_point
\* interpolates linearly over [min, max] without inverting the y axis:
\* re = min.re + x*(max.re-min.re)/width, im = min.im + y*(max.im-min.im)/height,
\* so pixel (0, 0) maps to min, pixel (width, height) to max and the centre
\* pixel to origin.
C10_LinearNotInverted ==
    FiniteState(state) =>
        /\ pixel_to_point(state, F32(0, 1), F32(0, 1)) = state.min
        /\ pixel_to_point(state, state.width, state.height) = state.max
        /\ pixel_to_point(state, FDiv(state.width, Two), FDiv(state.height, Two))
               = state.origin
        /\ \A pos \in CursorPositions :
               point_at(state, pos) =
                   Complex_new(
                       FAdd(state.min.re,
                            FDiv(FMul(AsF32(pos.x), FSub(state.max.re, state.min.re)),
                                 state.width)),
                       FAdd(state.min.im,
                            FDiv(FMul(AsF32(pos.y), FSub(state.max.im, state.min.im)),
                                 state.height)))

\* a press has applied pixel_to_point off the origin of a non-square,
\* zoomed viewport
C10_Witness ==
    /\ ev.kind = "LeftPressed" /\ mouse_left_down
    /\ FiniteState(state)
    /\ grab_pos = cursor_pos /\ grab_pos.x # 0 /\ grab_pos.y # 0
    /\ grab_point = point_at(state, grab_pos)
    /\ grab_point # state.origin
    /\ state.width # state.height
    /\ state.zoom # One

----------------------------------------------------------------------------
\* the complex number with integer parts re and im
C(re, im) == Complex_new(AsF32(re), AsF32(im))

\* s has the size, base scale and origin of the scenario of C11
IsScenario(s) ==
    /\ s.width = AsF32(100) /\ s.height = AsF32(100)
    /\ s.scale = AsF32(4) /\ s.origin = C(0, 0)

\* C11: a viewport constructed with width 100, height 100, base scale 4 and
\* origin (0,0) has zoom 1, min (-2,-2), max (2,2); zoom_at_point with a
\* positive direction then gives zoom 2, min (-1,-1), max (1,1); move_origin
\* (50, 0) then gives origin (-1,0) with min and max recomputed around it.
\* In general move_origin(dx, dy) adds ((min.re-max.re)/width*dx,
\* (min.im-max.im)/height*dy) to origin, recomputes min and max, and leaves
\* zoom, width, height and scale unchanged.
C11_ScenarioAndMoveOrigin ==
    [][ /\ (ev.kind = "new" /\ IsScenario(state)) =>
              /\ state.zoom = One
              /\ state.min = C(-2, -2) /\ state.max = C(2, 2)
              /\ (ev'.kind = "zoom_at_point" /\ ev'.delta.y > 0) =>
                    /\ state'.zoom = Two
                    /\ state'.min = C(-1, -1) /\ state'.max = C(1, 1)
        /\ (IsScenario(state) /\ state.zoom = Two
                /\ state.min = C(-1, -1) /\ state.max = C(1, 1)
                /\ ev'.kind = "move_origin" /\ ev'.delta = Args(50, 0)) =>
              /\ state'.origin = C(-1, 0)
              /\ state'.min = C(-2, -1) /\ state'.max = C(0, 1)
        /\ ev'.kind = "move_origin" =>
              LET lim == calculate_limits(state'.width, state'.height, state'.scale,
                                          state'.origin, state'.zoom)
              IN  /\ state'.origin =
                        Complex_new(
                            FAdd(state.origin.re,
                                 FMul(FDiv(FSub(state.min.re, state.max.re), state.width),
                                      AsF32(ev'.delta.x))),
                            FAdd(state.origin.im,
                                 FMul(FDiv(FSub(state.min.im, state.max.im), state.height),
                                      AsF32(ev'.delta.y))))
                  /\ state'.min = lim.min /\ state'.max = lim.max
                  /\ state'.zoom = state.zoom
                  /\ state'.width = state.width
                  /\ state'.height = state.height
                  /\ state'.scale = state.scale
      ]_vars

\* the end of the scenario: constructed 100 x 100 with base scale 4, zoomed
\* in once, then moved by (50, 0)
C11_Witness ==
    /\ ev.kind = "move_origin" /\ ev.delta = Args(50, 0)
    /\ steps = 2
    /\ state.width = AsF32(100) /\ state.height = AsF32(100)
    /\ state.scale = AsF32(4) /\ state.zoom = Two
    /\ state.origin = Complex_new(F32(-1, 1), F32(0, 1))
    /\ state.min = Complex_new(F32(-2, 1), F32(-1, 1))
    /\ state.max = Complex_new(F32(0, 1), F32(1, 1))

----------------------------------------------------------------------------
\* the surface errors other than out of memory
RecoverableErrors == {"Outdated", "Lost", "Timeout"}

\* the step was a redraw whose render failed recoverably
RenderFailedRecoverably == ev.kind = "update" /\ render_result \in RecoverableErrors

\* C12: in the frame loop a render that fails with out of memory sets the
\* loop to exit, and no handler runs after that; a render that fails with any
\* other surface error (outdated, lost, timeout) leaves the loop running and
\* the camera exactly as update left it; and after such a failure a further
\* redraw is requested and then served by another update + render, unless
\* the loop is closed first.
C12_RenderErrorHandling ==
    /\ [][ /\ render_result' = "OutOfMemory" => control_flow' = "Exit"
           /\ render_result' \in RecoverableErrors =>
                 /\ control_flow' = "Poll"
                 /\ state' = update_clear(update_drag(state, mouse_left_down,
                                                      grab_point, cursor_pos))
                 /\ <<cursor_pos', mouse_left_down', grab_pos', grab_point'>>
                        = <<cursor_pos, mouse_left_down, grab_pos, grab_point>>
           /\ control_flow = "Exit" => FALSE
         ]_vars
    /\ (RenderFailedRecoverably ~> (redraw_requested \/ control_flow = "Exit"))
    /\ (redraw_requested ~>
            ((~redraw_requested /\ ev.kind = "update" /\ render_result # "none")
             \/ control_flow = "Exit"))

\* a redraw of a dragged, zoomed viewport whose update uploaded the state and
\* whose render then timed out, the loop still running
C12_Witness ==
    /\ RenderFailedRecoverably /\ render_result = "Timeout"
    /\ ev.uploaded
    /\ control_flow = "Poll"
    /\ mouse_left_down /\ FiniteState(state)
    /\ state.zoom # One

----------------------------------------------------------------------------
\* C13: a left press while the button is up stores the current cursor
\* position in grab_pos and pixel_to_point of it in grab_point and puts the
\* button down; left-release and cursor-move events are always reported as
\* handled and change no field of the viewport (width, height, origin, scale,
\* zoom, min, max, dirty flag), a release putting the button up; and while
\* the button is up an update tick does not change origin.
C13_DragStateMachine ==
    [][ /\ (ev'.kind = "LeftPressed" /\ ~mouse_left_down) =>
              /\ mouse_left_down'
              /\ grab_pos' = cursor_pos
              /\ grab_point' = pixel_to_point(state, AsF32(cursor_pos.x),
                                              AsF32(cursor_pos.y))
              /\ cursor_pos' = cursor_pos
        /\ ev'.kind \in {"LeftReleased", "CursorMoved"} =>
              /\ ev'.handled
              /\ state' = state
              /\ <<grab_pos', grab_point'>> = <<grab_pos, grab_point>>
        /\ ev'.kind = "LeftReleased" => ~mouse_left_down' /\ cursor_pos' = cursor_pos
        /\ ev'.kind = "CursorMoved" => mouse_left_down' = mouse_left_down
        /\ (ev'.kind = "update" /\ ~mouse_left_down) => state'.origin = state.origin
      ]_vars

\* a tick after the end of a drag: the button was pressed at one pixel, the
\* cursor moved to another in both directions, the button was released, and
\* the tick found the grabbed point away from the cursor
C13_Witness ==
    /\ ev.kind = "update" /\ ~mouse_left_down
    /\ steps = 3
    /\ FiniteState(state)
    /\ cursor_pos.x # grab_pos.x /\ cursor_pos.y # grab_pos.y
    /\ grab_point = point_at(state, grab_pos)
    /\ grab_point # point_at(state, cursor_pos)
    /\ state.zoom = One

----------------------------------------------------------------------------
\* the fields of a CameraState that describe the viewport (all but the dirty
\* flag)
View(s) == <<s.width, s.height, s.origin, s.scale, s.zoom, s.min, s.max>>

\* C14: at every render call, whatever input events, resizes, calls and
\* redraws came before, the width, height, origin, scale, zoom, min and max
\* held in the GPU uniform buffer are those of the host viewport state; so
\* are they right after construction.
C14_BufferMatchesStateAtRender ==
    (render_result # "none" \/ ev.kind = "new") => View(buffer) = View(state)

\* a render after the update of the same redraw has uploaded a viewport that
\* a scroll and a pan had changed since construction
C14_Witness ==
    /\ render_result = "Ok" /\ ev.kind = "update" /\ ev.uploaded
    /\ steps = 3
    /\ FiniteState(state)
    /\ buffer.zoom # One /\ buffer.origin # DEFAULT_CAMERA_ORIGIN
    /\ buffer # state

=============================================================================
